---- MODULE Spec2Model ----
(***************************************************************************)
(* Model of Demo3.ipynb: the spam-comment pipeline                         *)
(*   read_csv -> data_cleaning_encoding -> vectorizing ->                  *)
(*   train_test_splitting -> model_training_random_forest -> predict ->    *)
(*   model_evaluation_scores -> confusion_matrix -> classification_rep.    *)
(*                                                                         *)
(* Text is a sequence of character codes (code points); a column name is   *)
(* text too. A cell of a DataFrame is a sequence of integers: the code     *)
(* points of a text value, a one-element sequence <<n>> for a number, and  *)
(* the empty sequence for a missing value (read_csv reads an empty field   *)
(* as NaN). A DataFrame is a record                                        *)
(*   [columns : sequence of column names, index : sequence of row labels,  *)
(*    rows : sequence of functions from the column names to cells].        *)
(***************************************************************************)
EXTENDS Integers, Sequences, FiniteSets, TLC

VARIABLES pc, csv, data, out, err, test_size, split, model, y_pred, scores

vars == <<pc, csv, data, out, err, test_size, split, model, y_pred, scores>>

(***************************************************************************)
(* pc      the statement of main() reached, "error" once an exception has  *)
(*         ended the run                                                   *)
(* csv     the table as read from the dataset file; in the specifications  *)
(*         of a single stage, the table the stage was given                *)
(* data    the DataFrame main() holds in data; it is changed in place      *)
(* out     what has been printed or drawn so far                           *)
(* err     the exception that ended the run, NoError before                *)
(* test_size  the held-out fraction train_test_splitting is called with,   *)
(*         in hundredths                                                   *)
(* split   x_train, x_test, y_train, y_test                                *)
(* model   the fitted classifier, known by its classes_                    *)
(* y_pred  the predicted labels of the test rows                           *)
(* scores  accuracy, precision, recall and f1                              *)
(***************************************************************************)

-----------------------------------------------------------------------------
(* Bounds of the model. *)

\* most rows of a table handed to data_cleaning_encoding on its own
MaxRows == 3

\* def train_test_splitting(data, test_size=0.3): the default held-out
\* fraction, in hundredths
TestSizePercent == 30

-----------------------------------------------------------------------------
(* Column names of the dataset, as text. *)

COMMENT_ID == <<67, 79, 77, 77, 69, 78, 84, 95, 73, 68>>
AUTHOR == <<65, 85, 84, 72, 79, 82>>
DATE == <<68, 65, 84, 69>>
CONTENT == <<67, 79, 78, 84, 69, 78, 84>>
VIDEO_NAME == <<86, 73, 68, 69, 79, 95, 78, 65, 77, 69>>
CLASS == <<67, 76, 65, 83, 83>>

\* header of Youtube-Spam-Dataset.csv
ExpectedColumns == <<COMMENT_ID, AUTHOR, DATE, CONTENT, VIDEO_NAME, CLASS>>

-----------------------------------------------------------------------------
(* Sequences and text. *)

Range(s) == {s[i] : i \in DOMAIN s}

\* the elements of s at the positions in keep, in their order
RECURSIVE SubSeqAt(_, _, _)
SubSeqAt(s, keep, i) ==
    IF i > Len(s) THEN <<>>
    ELSE (IF i \in keep THEN <<s[i]>> ELSE <<>>) \o SubSeqAt(s, keep, i + 1)

\* s < t in the order Python and numpy sort text and numbers: element by
\* element, a proper prefix first
RECURSIVE LexLess(_, _)
LexLess(s, t) ==
    IF t = <<>> THEN FALSE
    ELSE IF s = <<>> THEN TRUE
    ELSE IF Head(s) # Head(t) THEN Head(s) < Head(t)
    ELSE LexLess(Tail(s), Tail(t))

\* sorted(set(values))
sorted(S) ==
    [i \in 1..Cardinality(S) |->
        CHOOSE v \in S : Cardinality({u \in S : LexLess(u, v)}) = i - 1]

\* position of v in the sequence s (v occurs in s)
IndexOf(s, v) == CHOOSE i \in DOMAIN s : s[i] = v

-----------------------------------------------------------------------------
(* pandas operations used by the notebook. *)

NaN == <<>>

NoError == [type |-> "", labels |-> <<>>]
KeyError(labels) == [type |-> "KeyError", labels |-> labels]

EmptyFrame == [columns |-> <<>>, index |-> <<>>, rows |-> <<>>]

\* data.isnull().any(axis=1): the positions of the rows with a missing cell
isnull_any(df) ==
    {i \in DOMAIN df.rows : \E c \in DOMAIN df.rows[i] : df.rows[i][c] = NaN}

\* the rows at the given positions, with their labels
take(df, keep) ==
    [df EXCEPT !.index = SubSeqAt(df.index, keep, 1),
               !.rows = SubSeqAt(df.rows, keep, 1)]

\* data.dropna(inplace=True)
dropna(df) == take(df, DOMAIN df.rows \ isnull_any(df))

\* data.duplicated(): the positions of the rows equal to an earlier row
duplicated(df) ==
    {i \in DOMAIN df.rows : \E j \in 1..(i - 1) : df.rows[j] = df.rows[i]}

\* data.drop_duplicates(inplace=True)
drop_duplicates(df) == take(df, DOMAIN df.rows \ duplicated(df))

\* data[c]: the cells of column c, top to bottom
getitem(df, c) == [i \in DOMAIN df.rows |-> df.rows[i][c]]

\* data[c] = values, for a column the frame has
setitem(df, c, values) ==
    [df EXCEPT !.rows = [i \in DOMAIN df.rows |-> [df.rows[i] EXCEPT ![c] = values[i]]]]

\* data.drop(labels, axis=1, inplace=True), for labels the frame has
drop_columns(df, labels) ==
    LET keep == {i \in DOMAIN df.columns : df.columns[i] \notin Range(labels)}
        left == SubSeqAt(df.columns, keep, 1)
    IN  [df EXCEPT !.columns = left,
                   !.rows = [i \in DOMAIN df.rows |-> [c \in Range(left) |-> df.rows[i][c]]]]

\* data.reset_index(drop=True, inplace=True)
reset_index(df) == [df EXCEPT !.index = [i \in DOMAIN df.rows |-> i - 1]]

-----------------------------------------------------------------------------
(* sklearn.preprocessing.LabelEncoder *)

\* le.fit(y): classes_ is the sorted distinct values
fit(y) == sorted(Range(y))

\* le.transform(y): the position of each value in classes_, from 0
transform(classes, y) == [i \in DOMAIN y |-> <<IndexOf(classes, y[i]) - 1>>]

\* codes in order of first appearance, as pd.factorize gives them
first_seen_transform(y) ==
    [i \in DOMAIN y |->
        LET f == CHOOSE k \in 1..i : y[k] = y[i] /\ \A m \in 1..(k - 1) : y[m] # y[i]
        IN  <<Cardinality({y[j] : j \in 1..(f - 1)})>>]

\* le.fit_transform(y)
fit_transform(y) == transform(fit(y), y)

-----------------------------------------------------------------------------
(* data_cleaning_encoding, statement by statement. A call state is        *)
(* [df, ret, out, err]: the frame being changed in place, the frame       *)
(* returned (empty until the return), what was printed, and the exception *)
(* raised (NoError while the call is running).                            *)

Call(df) == [df |-> df, ret |-> EmptyFrame, out |-> <<>>, err |-> NoError]

\* removes only the rows whose every cell is missing
HandleNullsHowAll(s) ==
    LET allnull == {i \in DOMAIN s.df.rows :
                       \A c \in DOMAIN s.df.rows[i] : s.df.rows[i][c] = NaN}
    IN  IF isnull_any(s.df) # {}
        THEN [s EXCEPT !.out = Append(@, [what |-> "null", n |-> Cardinality(isnull_any(s.df))]),
                       !.df = take(@, DOMAIN s.df.rows \ allnull)]
        ELSE s

\* if data.isnull().any(axis=1).any(): print the count, dropna
HandleNulls(s) ==
    IF isnull_any(s.df) # {}
    THEN [s EXCEPT !.out = Append(@, [what |-> "null", n |-> Cardinality(isnull_any(s.df))]),
                   !.df = dropna(@)]
    ELSE s

\* the count printed is that of the rows kept
HandleDuplicatesCountsKept(s) ==
    IF duplicated(s.df) # {}
    THEN [s EXCEPT !.out = Append(@, [what |-> "duplicate",
                                      n |-> Len(s.df.rows) - Cardinality(duplicated(s.df))]),
                   !.df = drop_duplicates(@)]
    ELSE s

\* if data.duplicated().any(): print the count, drop_duplicates
HandleDuplicates(s) ==
    IF duplicated(s.df) # {}
    THEN [s EXCEPT !.out = Append(@, [what |-> "duplicate", n |-> Cardinality(duplicated(s.df))]),
                   !.df = drop_duplicates(@)]
    ELSE s

\* data[target] = le.fit_transform(data[source]); data[source] raises
\* KeyError when the frame has no such column
EncodeColumn(s, target, source) ==
    IF s.err # NoError THEN s
    ELSE IF source \notin Range(s.df.columns) THEN [s EXCEPT !.err = KeyError(<<source>>)]
    ELSE [s EXCEPT !.df = setitem(@, target, fit_transform(getitem(@, source)))]

\* VIDEO_NAME encoded from the AUTHOR column
EncodeStringColumnsSameSource(s) ==
    EncodeColumn(EncodeColumn(s, AUTHOR, AUTHOR), VIDEO_NAME, AUTHOR)

\* le = LabelEncoder(); AUTHOR, then VIDEO_NAME, each fitted afresh
EncodeStringColumns(s) ==
    EncodeColumn(EncodeColumn(s, AUTHOR, AUTHOR), VIDEO_NAME, VIDEO_NAME)

\* drops the labels the frame has and ignores the others
DropColumnsIgnore(s, labels) ==
    IF s.err # NoError THEN s
    ELSE [s EXCEPT !.df = drop_columns(@, labels)]

\* data.drop(labels, axis=1, inplace=True): KeyError naming the labels the
\* frame does not have
DropColumns(s, labels) ==
    LET absent == SubSeqAt(labels, {i \in DOMAIN labels : labels[i] \notin Range(s.df.columns)}, 1)
    IN  IF s.err # NoError THEN s
        ELSE IF absent # <<>> THEN [s EXCEPT !.err = KeyError(absent)]
        ELSE [s EXCEPT !.df = drop_columns(@, labels)]

\* data.reset_index(drop=True, inplace=True)
ResetIndex(s) ==
    IF s.err # NoError THEN s ELSE [s EXCEPT !.df = reset_index(@)]

\* return data: the frame returned is the frame that was given
Return(s) ==
    IF s.err # NoError THEN s ELSE [s EXCEPT !.ret = s.df]

\* the steps are made on a copy: the frame of the caller stays as given
data_cleaning_encoding_on_copy(df) ==
    LET s == ResetIndex(
               DropColumns(
                 DropColumns(
                   EncodeStringColumns(HandleDuplicates(HandleNulls(Call(df)))),
                   <<DATE>>),
                 <<COMMENT_ID>>))
    IN  IF s.err # NoError THEN [s EXCEPT !.df = df]
        ELSE [s EXCEPT !.ret = s.df, !.df = df]

\* def data_cleaning_encoding(data): df is the frame of the caller when the
\* call ends, ret the frame returned
data_cleaning_encoding(df) ==
    Return(
      ResetIndex(
        DropColumns(
          DropColumns(
            EncodeStringColumns(HandleDuplicates(HandleNulls(Call(df)))),
            <<DATE>>),
          <<COMMENT_ID>>)))

-----------------------------------------------------------------------------
(* Input tables of the cleaning stage. *)

Text1 == <<49>>                    \* "1"
Text2 == <<50>>                    \* "2"
AuthorBo == <<66, 111>>            \* "Bo"
AuthorAl == <<97, 108>>            \* "al"
VideoPSY == <<80, 83, 89>>         \* "PSY"
VideoKP == <<75, 80>>              \* "KP"
Date2015 == <<50, 48, 49, 53>>     \* "2015"
ContentHiAll == <<104, 105, 32, 97, 108, 108>>   \* "hi all"

CsvRow(id, author, date, content, video, class) ==
    [c \in Range(ExpectedColumns) |->
        IF c = COMMENT_ID THEN id
        ELSE IF c = AUTHOR THEN author
        ELSE IF c = DATE THEN date
        ELSE IF c = CONTENT THEN content
        ELSE IF c = VIDEO_NAME THEN video
        ELSE class]

BaseRow == CsvRow(Text1, AuthorBo, Date2015, ContentHiAll, VideoPSY, <<1>>)

\* complete rows that differ in COMMENT_ID, AUTHOR and VIDEO_NAME, and the
\* base row with one field missing
CsvRows ==
    {CsvRow(id, av[1], Date2015, ContentHiAll, av[2], <<1>>) :
        id \in {Text1, Text2},
        av \in {<<AuthorBo, VideoPSY>>, <<AuthorAl, VideoPSY>>, <<AuthorBo, VideoKP>>}}
    \cup {[BaseRow EXCEPT ![c] = NaN] : c \in Range(ExpectedColumns)}

\* pd.read_csv: the rows under the header, labelled 0..n-1
Frame(columns, rows) ==
    [columns |-> columns, index |-> [i \in DOMAIN rows |-> i - 1], rows |-> rows]

CsvTables == {Frame(ExpectedColumns, r) : r \in UNION {[1..n -> CsvRows] : n \in 0..MaxRows}}

NoSplit == [x_train |-> EmptyFrame, x_test |-> EmptyFrame, y_train |-> <<>>, y_test |-> <<>>]

-----------------------------------------------------------------------------
(* The cleaning stage on its own: one call on a table as read, and a      *)
(* second call on the table the first call returned.                      *)

InitClean ==
    /\ csv \in CsvTables
    /\ data = csv
    /\ pc = "loaded"
    /\ out = <<>>
    /\ err = NoError
    /\ test_size = TestSizePercent
    /\ split = NoSplit
    /\ model = {}
    /\ y_pred = <<>>
    /\ scores = <<>>

\* data = data_cleaning_encoding(data): data is the frame returned; when the
\* call raises, data is still the frame given, which is changed in place, so
\* what was done before an exception stays done
Clean ==
    /\ pc = "loaded"
    /\ LET r == data_cleaning_encoding(data)
       IN  /\ data' = IF r.err = NoError THEN r.ret ELSE r.df
           /\ out' = out \o r.out
           /\ err' = r.err
           /\ pc' = IF r.err = NoError THEN "cleaned" ELSE "error"
    /\ UNCHANGED <<csv, test_size, split, model, y_pred, scores>>

\* data_cleaning_encoding called again on the table it returned
CleanAgain ==
    /\ pc = "cleaned"
    /\ LET r == data_cleaning_encoding(data)
       IN  /\ data' = IF r.err = NoError THEN r.ret ELSE r.df
           /\ out' = out \o r.out
           /\ err' = r.err
           /\ pc' = IF r.err = NoError THEN "recleaned" ELSE "error"
    /\ UNCHANGED <<csv, test_size, split, model, y_pred, scores>>

NextClean == Clean \/ CleanAgain

SpecClean == InitClean /\ [][NextClean]_vars

-----------------------------------------------------------------------------
(* Properties of the cleaning stage (specification SpecClean).            *)

\* positions of the rows of the table as read that have no missing field and
\* are the first occurrence of their six-column value
Kept ==
    {i \in DOMAIN csv.rows :
        /\ \A c \in Range(csv.columns) : csv.rows[i][c] # NaN
        /\ \A j \in 1..(i - 1) : csv.rows[j] # csv.rows[i]}

\* the rows as read that Kept names, in the order read
Survivors == SubSeqAt(csv.rows, Kept, 1)

\* the values of column c in the surviving rows, as read
Original(c) == [k \in DOMAIN Survivors |-> Survivors[k][c]]

\* the number code[1] of a numeric cell
Num(cell) == cell[1]

\* C1: the table returned by data_cleaning_encoding holds no two rows that
\* are equal in all of its remaining columns.
C1_NoDuplicateRows ==
    pc = "cleaned" =>
        \A i, j \in DOMAIN data.rows : i # j => data.rows[i] # data.rows[j]

\* C2 as claimed: a second call on the returned table completes and returns
\* a table identical to the one it was given.
C2_Idempotent ==
    [][pc = "cleaned" => (pc' = "recleaned" /\ data' = data)]_vars

\* C2 as amended: a second call on the returned table does not complete. It
\* raises KeyError for DATE; up to there the columns and the codes of the
\* rows it keeps are as they were, and the only rows it removes are rows
\* equal to an earlier row in the four remaining columns.
C2_SecondCallAborts ==
    [][pc = "cleaned" =>
         /\ pc' = "error"
         /\ err' = KeyError(<<DATE>>)
         /\ data'.columns = data.columns
         /\ Range(data'.rows) = Range(data.rows)
         /\ \A i, j \in DOMAIN data'.rows : i # j => data'.rows[i] # data'.rows[j]
         /\ \E keep \in SUBSET DOMAIN data.rows : data'.rows = SubSeqAt(data.rows, keep, 1)
         /\ ((\A i, j \in DOMAIN data.rows : i # j => data.rows[i] # data.rows[j])
                => data' = data)]_vars

\* a second call has been made on a returned table of two or more rows
C2_Witness ==
    pc = "error" /\ err = KeyError(<<DATE>>) /\ Len(data.rows) >= 2

\* C3: the rows returned are exactly the rows read that have no missing
\* field and are the first occurrence of their six-column value, in the
\* order read: CONTENT and CLASS as read, AUTHOR and VIDEO_NAME the codes
\* that stand for the values read; so no cell is missing and there are never
\* more rows than were read.
C3_RowsKept ==
    pc = "cleaned" =>
        /\ Len(data.rows) = Cardinality(Kept)
        /\ Len(data.rows) <= Len(csv.rows)
        /\ \A k \in DOMAIN data.rows :
              /\ \A c \in DOMAIN data.rows[k] : data.rows[k][c] # NaN
              /\ data.rows[k][CONTENT] = Survivors[k][CONTENT]
              /\ data.rows[k][CLASS] = Survivors[k][CLASS]
              /\ \A c \in {AUTHOR, VIDEO_NAME} :
                    sorted(Range(Original(c)))[Num(data.rows[k][c]) + 1] = Survivors[k][c]

\* the second of three rows read was dropped for a missing field and the
\* two others, which differ, are left
C3_Witness ==
    /\ pc = "cleaned"
    /\ Len(csv.rows) = 3
    /\ Len(data.rows) = 2
    /\ \E c \in Range(ExpectedColumns) : csv.rows[2][c] = NaN
    /\ csv.rows[1] # csv.rows[3]

\* the table as read with the values of column c exchanged by the
\* one-to-one renaming of VideoPSY and VideoKP, or of AuthorBo and AuthorAl
Renamed(c) ==
    LET swap(v) == IF v = VideoPSY THEN VideoKP ELSE IF v = VideoKP THEN VideoPSY
                   ELSE IF v = AuthorBo THEN AuthorAl ELSE IF v = AuthorAl THEN AuthorBo
                   ELSE v
    IN  [csv EXCEPT !.rows = [i \in DOMAIN csv.rows |-> [csv.rows[i] EXCEPT ![c] = swap(@)]]]

\* C4: for AUTHOR and for VIDEO_NAME, two returned rows carry the same code
\* exactly when their values as read were the same, there are as many codes
\* as values, and the codes of one column stay the same when the values of
\* the other column are renamed.
C4_EncodingInjective ==
    pc = "cleaned" =>
        /\ \A c \in {AUTHOR, VIDEO_NAME} :
              /\ \A i, j \in DOMAIN data.rows :
                    (data.rows[i][c] = data.rows[j][c]) <=> (Original(c)[i] = Original(c)[j])
              /\ Cardinality(Range(getitem(data, c))) = Cardinality(Range(Original(c)))
        /\ getitem(data_cleaning_encoding(Renamed(VIDEO_NAME)).df, AUTHOR) = getitem(data, AUTHOR)
        /\ getitem(data_cleaning_encoding(Renamed(AUTHOR)).df, VIDEO_NAME) = getitem(data, VIDEO_NAME)

\* three rows are left: two of one author under different videos, and one of
\* the other author
C4_Witness ==
    /\ pc = "cleaned"
    /\ Len(data.rows) = 3
    /\ Cardinality(Range(Original(AUTHOR))) = 2
    /\ Cardinality(Range(Original(VIDEO_NAME))) = 2
    /\ \E i, j \in DOMAIN data.rows :
          /\ i # j
          /\ data.rows[i][AUTHOR] = data.rows[j][AUTHOR]
          /\ data.rows[i][VIDEO_NAME] # data.rows[j][VIDEO_NAME]

\* the number of distinct values of y before the first occurrence of y[k]
FirstSeenRank(y, k) ==
    Cardinality({y[j] : j \in {m \in 1..k : \A n \in 1..m : y[n] # y[k]}})

\* C5 as claimed: the codes of AUTHOR and of VIDEO_NAME are 0..k-1 for k
\* distinct values and are given in order of first appearance.
C5_FirstSeenOrder ==
    pc = "cleaned" =>
        \A c \in {AUTHOR, VIDEO_NAME} :
            /\ {Num(code) : code \in Range(getitem(data, c))}
                  = 0..(Cardinality(Range(Original(c))) - 1)
            /\ \A k \in DOMAIN data.rows :
                  Num(data.rows[k][c]) = FirstSeenRank(Original(c), k)

\* C5 as amended: the codes of AUTHOR and of VIDEO_NAME are 0..k-1 for k
\* distinct values and are given in ascending sorted order of the values
\* (code point order): the code of a value is the number of distinct values
\* of the column that sort before it.
C5_SortedOrder ==
    pc = "cleaned" =>
        \A c \in {AUTHOR, VIDEO_NAME} :
            /\ {Num(code) : code \in Range(getitem(data, c))}
                  = 0..(Cardinality(Range(Original(c))) - 1)
            /\ \A k \in DOMAIN data.rows :
                  Num(data.rows[k][c])
                    = Cardinality({v \in Range(Original(c)) : LexLess(v, Original(c)[k])})

\* the first row left has an AUTHOR that sorts after the AUTHOR of a later
\* row
C5_Witness ==
    /\ pc = "cleaned"
    /\ Len(data.rows) >= 2
    /\ Num(data.rows[1][AUTHOR]) = 1
    /\ \E k \in DOMAIN data.rows : Num(data.rows[k][AUTHOR]) = 0

-----------------------------------------------------------------------------
(* sklearn.feature_extraction.text.CountVectorizer with its defaults:     *)
(* lowercase=True, token_pattern (?u)\b\w\w+\b, ngram_range (1, 1).       *)

\* fewest characters of a token: \w\w+
MinTokenLen == 2

ValueError == [type |-> "ValueError", labels |-> <<>>]

\* \w, for the characters below code 128: a digit, a letter or "_"
IsWordChar(ch) == ch \in (48..57) \cup (65..90) \cup {95} \cup (97..122)

\* leaves the text as it is: lowercase=False
keepcase(doc) == doc

\* doc.lower()
lower(doc) == [i \in DOMAIN doc |-> IF doc[i] \in 65..90 THEN doc[i] + 32 ELSE doc[i]]

\* a run of word characters that has ended is a token when it is long enough
Flush(run) == IF Len(run) >= MinTokenLen THEN <<run>> ELSE <<>>

\* token_pattern.findall(doc): the maximal runs of word characters, left to
\* right
RECURSIVE findall(_, _, _)
findall(doc, i, run) ==
    IF i > Len(doc) THEN Flush(run)
    ELSE IF IsWordChar(doc[i]) THEN findall(doc, i + 1, Append(run, doc[i]))
    ELSE Flush(run) \o findall(doc, i + 1, <<>>)

\* build_analyzer(): preprocess (lower), then tokenize
analyze(doc) == findall(lower(doc), 1, <<>>)

\* vocabulary[feature] of the defaultdict: a term gets the next index the
\* first time it is seen
RECURSIVE AddTerms(_, _)
AddTerms(vocabulary, tokens) ==
    IF tokens = <<>> THEN vocabulary
    ELSE AddTerms(IF Head(tokens) \in Range(vocabulary) THEN vocabulary
                  ELSE Append(vocabulary, Head(tokens)),
                  Tail(tokens))

RECURSIVE VocabularyOf(_, _, _)
VocabularyOf(docs, d, vocabulary) ==
    IF d > Len(docs) THEN vocabulary
    ELSE VocabularyOf(docs, d + 1, AddTerms(vocabulary, analyze(docs[d])))

\* _count_vocab: the vocabulary in order of first appearance and, for every
\* document, the count of every term
count_vocab(docs) ==
    LET vocabulary == VocabularyOf(docs, 1, <<>>)
    IN  [vocabulary |-> vocabulary,
         X |-> [d \in DOMAIN docs |->
                  [j \in DOMAIN vocabulary |->
                     Cardinality({k \in DOMAIN analyze(docs[d]) :
                                     analyze(docs[d])[k] = vocabulary[j]})]]]

\* the terms stay in order of first appearance
sort_features_unsorted(cv) == cv

\* sorts the terms and leaves the columns of X where they were
sort_features_names_only(cv) == [cv EXCEPT !.vocabulary = sorted(Range(cv.vocabulary))]

\* _sort_features: the terms sorted, and the columns of X moved with them
sort_features(cv) ==
    LET names == sorted(Range(cv.vocabulary))
    IN  [vocabulary |-> names,
         X |-> [d \in DOMAIN cv.X |->
                  [j \in DOMAIN names |-> cv.X[d][IndexOf(cv.vocabulary, names[j])]]]]

\* pd.DataFrame(array, columns=names): rows labelled 0..n-1
DataFrame(X, names) ==
    Frame(names, [d \in DOMAIN X |-> [t \in Range(names) |-> <<X[d][IndexOf(names, t)]>>]])

\* pd.concat([left, right], axis=1): the labels of left, then the labels only
\* right has; a frame without a label contributes NaN in its columns
concat(left, right) ==
    LET index == left.index \o SubSeqAt(right.index,
                     {i \in DOMAIN right.index : right.index[i] \notin Range(left.index)}, 1)
        cell(df, label, c) ==
            IF label \in Range(df.index) THEN df.rows[IndexOf(df.index, label)][c] ELSE NaN
    IN  [columns |-> left.columns \o right.columns,
         index |-> index,
         rows |-> [i \in DOMAIN index |->
                     [c \in Range(left.columns) \cup Range(right.columns) |->
                        IF c \in Range(left.columns) THEN cell(left, index[i], c)
                        ELSE cell(right, index[i], c)]]]

-----------------------------------------------------------------------------
(* vectorizing, statement by statement. A call state is [df, vec, err]:   *)
(* cleaned_data, vectorized_df and the exception raised.                  *)

\* an empty vocabulary is let through
FitTransformUnchecked(s) ==
    IF s.err # NoError THEN s
    ELSE IF CONTENT \notin Range(s.df.columns) THEN [s EXCEPT !.err = KeyError(<<CONTENT>>)]
    ELSE LET cv == sort_features(count_vocab(getitem(s.df, CONTENT)))
         IN  [s EXCEPT !.vec = DataFrame(cv.X, cv.vocabulary)]

\* cleaned_data['CONTENT'], vectorizer.fit_transform(...).toarray() and
\* pd.DataFrame(..., columns=vectorizer.get_feature_names_out());
\* fit_transform raises ValueError when no document has a token
FitTransform(s) ==
    IF s.err # NoError THEN s
    ELSE IF CONTENT \notin Range(s.df.columns) THEN [s EXCEPT !.err = KeyError(<<CONTENT>>)]
    ELSE LET counted == count_vocab(getitem(s.df, CONTENT))
             cv == sort_features(counted)
         IN  IF counted.vocabulary = <<>> THEN [s EXCEPT !.err = ValueError]
             ELSE [s EXCEPT !.vec = DataFrame(cv.X, cv.vocabulary)]

\* only vectorized_df is reset
ResetVectorizedOnly(s) ==
    IF s.err # NoError THEN s ELSE [s EXCEPT !.vec = reset_index(@)]

\* vectorized_df.reset_index(...); cleaned_data.reset_index(...)
ResetIndices(s) ==
    IF s.err # NoError THEN s
    ELSE [s EXCEPT !.vec = reset_index(@), !.df = reset_index(@)]

\* combined_data = pd.concat([cleaned_data, vectorized_df], axis=1)
Concat(s) ==
    IF s.err # NoError THEN s ELSE [s EXCEPT !.df = concat(s.df, s.vec)]

vectorizing(cleaned_data) ==
    Concat(ResetIndices(FitTransform(
        [df |-> cleaned_data, vec |-> EmptyFrame, err |-> NoError])))

\* data = vectorizing(data)
Vectorize ==
    /\ pc = "cleaned"
    /\ LET r == vectorizing(data)
       IN  /\ data' = r.df
           /\ err' = r.err
           /\ pc' = IF r.err = NoError THEN "vectorized" ELSE "error"
    /\ UNCHANGED <<csv, test_size, out, split, model, y_pred, scores>>

-----------------------------------------------------------------------------
(* The vectorizing stage on its own: cleaned tables with any row labels.  *)

\* most rows of a table handed to vectorizing on its own
MaxVecRows == 2

CleanedColumns == <<AUTHOR, CONTENT, VIDEO_NAME, CLASS>>

CleanedRow(author, content, video, class) ==
    [c \in Range(CleanedColumns) |->
        IF c = AUTHOR THEN <<author>>
        ELSE IF c = CONTENT THEN content
        ELSE IF c = VIDEO_NAME THEN <<video>>
        ELSE <<class>>]

VecContents ==
    { <<104, 105, 32, 97, 108, 108>>,        \* "hi all"
      <<97>>,                                \* "a"
      <<72, 105, 32, 104, 105>>,             \* "Hi hi"
      <<73, 32, 97, 109>>,                   \* "I am"
      <<65, 108, 108, 44, 104, 105, 33>>,    \* "All,hi!"
      <<117, 112, 95, 50, 32, 85>>,          \* "up_2 U"
      <<98, 52, 32, 117>> }                  \* "b4 u"

\* "buy cheap followers now"
Toy1 == <<98, 117, 121, 32, 99, 104, 101, 97, 112, 32, 102, 111, 108, 108, 111, 119, 101, 114, 115, 32, 110, 111, 119>>
\* "click this link for free prize"
Toy2 == <<99, 108, 105, 99, 107, 32, 116, 104, 105, 115, 32, 108, 105, 110, 107, 32, 102, 111, 114, 32, 102, 114, 101, 101, 32, 112, 114, 105, 122, 101>>
\* "subscribe and win money"
Toy3 == <<115, 117, 98, 115, 99, 114, 105, 98, 101, 32, 97, 110, 100, 32, 119, 105, 110, 32, 109, 111, 110, 101, 121>>
\* "great video thanks"
Toy4 == <<103, 114, 101, 97, 116, 32, 118, 105, 100, 101, 111, 32, 116, 104, 97, 110, 107, 115>>
\* "nice explanation loved it"
Toy5 == <<110, 105, 99, 101, 32, 101, 120, 112, 108, 97, 110, 97, 116, 105, 111, 110, 32, 108, 111, 118, 101, 100, 32, 105, 116>>
\* "can you make a follow up"
Toy6 == <<99, 97, 110, 32, 121, 111, 117, 32, 109, 97, 107, 101, 32, 97, 32, 102, 111, 108, 108, 111, 119, 32, 117, 112>>

\* the six-row dataset of the end-to-end scenario, cleaned: three spam
\* comments (CLASS 0), then three that are not (CLASS 1)
ToyCleaned ==
    Frame(CleanedColumns,
          << CleanedRow(0, Toy1, 0, 0), CleanedRow(1, Toy2, 0, 0), CleanedRow(2, Toy3, 0, 0),
             CleanedRow(3, Toy4, 0, 1), CleanedRow(4, Toy5, 0, 1), CleanedRow(5, Toy6, 0, 1) >>)

\* cleaned tables: any contents, and as row labels any distinct numbers
VecTables ==
    {ToyCleaned} \cup
    UNION {
      {[columns |-> CleanedColumns, index |-> labels,
        rows |-> [i \in 1..n |-> CleanedRow(0, contents[i], 0, 1)]] :
          contents \in [1..n -> VecContents],
          labels \in {l \in [1..n -> 0..n] : \A i, j \in 1..n : i # j => l[i] # l[j]}} :
      n \in 0..MaxVecRows}

InitVec ==
    /\ csv \in VecTables
    /\ data = csv
    /\ pc = "cleaned"
    /\ out = <<>>
    /\ err = NoError
    /\ test_size = TestSizePercent
    /\ split = NoSplit
    /\ model = {}
    /\ y_pred = <<>>
    /\ scores = <<>>

NextVec == Vectorize

SpecVec == InitVec /\ [][NextVec]_vars

-----------------------------------------------------------------------------
(* Properties of the vectorizing stage (specification SpecVec). Words are *)
(* read off the text as given, independently of the vectorizer.           *)

\* case folding of one character
Fold(ch) == IF ch \in 65..90 THEN ch + 32 ELSE ch

\* the places <<i, j>> of the words of doc: the maximal runs of word
\* characters
WordRuns(doc) ==
    {r \in (DOMAIN doc) \X (DOMAIN doc) :
        /\ r[1] <= r[2]
        /\ \A k \in r[1]..r[2] : IsWordChar(doc[k])
        /\ (r[1] = 1 \/ ~IsWordChar(doc[r[1] - 1]))
        /\ (r[2] = Len(doc) \/ ~IsWordChar(doc[r[2] + 1]))}

\* the word at a place, case folded
WordAt(doc, r) == [k \in 1..(r[2] - r[1] + 1) |-> Fold(doc[r[1] + k - 1])]

\* the distinct words of doc of at least n characters, case folded
Words(doc, n) == {WordAt(doc, r) : r \in {q \in WordRuns(doc) : q[2] - q[1] + 1 >= n}}

\* how many times term occurs as a word of doc
Occurrences(term, doc) == Cardinality({r \in WordRuns(doc) : WordAt(doc, r) = term})

\* the columns vectorizing added to those of the table it was given
TermColumns == SubSeq(data.columns, Len(csv.columns) + 1, Len(data.columns))

\* C8: whatever the row labels of the cleaned table, the combined table has
\* the same number of rows, labelled 0..n-1; row i carries the columns of
\* cleaned row i and the term counts of its CONTENT, and no cell is missing.
C8_RowsAligned ==
    pc = "vectorized" =>
        /\ Len(data.rows) = Len(csv.rows)
        /\ data.index = [i \in DOMAIN csv.rows |-> i - 1]
        /\ \A i \in DOMAIN data.rows :
              /\ \A c \in Range(csv.columns) : data.rows[i][c] = csv.rows[i][c]
              /\ \A t \in Range(TermColumns) :
                    data.rows[i][t] = <<Occurrences(t, csv.rows[i][CONTENT])>>
              /\ \A c \in DOMAIN data.rows[i] : data.rows[i][c] # NaN

\* two rows with different contents came in labelled 2 and 0
C8_Witness ==
    /\ pc = "vectorized"
    /\ csv.index = <<2, 0>>
    /\ csv.rows[1][CONTENT] # csv.rows[2][CONTENT]
    /\ Len(TermColumns) >= 2

\* C9: vectorizing adds exactly one column per distinct term of the CONTENT
\* values (default tokenization: case folded words of two or more word
\* characters), and every cell is the number of occurrences of the term in
\* the row's CONTENT, a number that is not negative.
C9_TermCounts ==
    pc = "vectorized" =>
        LET terms == UNION {Words(csv.rows[i][CONTENT], MinTokenLen) : i \in DOMAIN csv.rows}
        IN  /\ Len(data.columns) = Len(csv.columns) + Cardinality(terms)
            /\ Range(TermColumns) = terms
            /\ \A i \in DOMAIN data.rows : \A j \in DOMAIN TermColumns :
                  /\ Num(data.rows[i][TermColumns[j]]) >= 0
                  /\ Num(data.rows[i][TermColumns[j]])
                       = Occurrences(TermColumns[j], csv.rows[i][CONTENT])

\* a term occurs twice in one row and once in the other, and the terms
\* were first seen in an order that is not their sorted order
C9_Witness ==
    /\ pc = "vectorized"
    /\ Len(data.rows) = 2
    /\ csv.rows[1][CONTENT] = <<104, 105, 32, 97, 108, 108>>
    /\ \E t \in Range(TermColumns) :
          Num(data.rows[2][t]) = 2 /\ Num(data.rows[1][t]) = 1

\* C10 as claimed: the vocabulary holds every distinct word (up to case
\* folding) of every CONTENT value; for the six-row dataset, all distinct
\* words of the six strings.
C10_AllWords ==
    pc = "vectorized" =>
        \A i \in DOMAIN csv.rows :
            Words(csv.rows[i][CONTENT], 1) \subseteq Range(TermColumns)

\* C10 as amended: the vocabulary holds every distinct word of two or more
\* word characters (up to case folding) of every CONTENT value, and no word
\* of one character; for the six-row dataset it holds 26 terms, all distinct
\* words of the six strings but "a".
C10_WordsOfTwoOrMore ==
    pc = "vectorized" =>
        /\ \A i \in DOMAIN csv.rows :
              Words(csv.rows[i][CONTENT], MinTokenLen) \subseteq Range(TermColumns)
        /\ \A t \in Range(TermColumns) : Len(t) >= MinTokenLen
        /\ csv = ToyCleaned =>
              /\ Len(TermColumns) = 26
              /\ Range(TermColumns)
                   = UNION {Words(csv.rows[i][CONTENT], 1) : i \in DOMAIN csv.rows} \ {<<97>>}

\* the six-row dataset has been vectorized
C10_Witness ==
    pc = "vectorized" /\ csv = ToyCleaned /\ Len(data.rows) = 6

\* s comes before t in ascending lexical order: they agree up to a place
\* where s has ended and t has not, or where s has the smaller character
Before(s, t) ==
    \E k \in 1..(Len(s) + 1) :
        /\ k - 1 <= Len(t)
        /\ \A m \in 1..(k - 1) : s[m] = t[m]
        /\ \/ k = Len(s) + 1 /\ Len(t) >= k
           \/ k <= Len(s) /\ k <= Len(t) /\ s[k] < t[k]

\* C11: the columns of the table vectorizing returns are the columns of the
\* cleaned table in their original order, followed by the vocabulary
\* columns in ascending lexical order of the term.
C11_ColumnOrder ==
    pc = "vectorized" =>
        /\ Len(data.columns) >= Len(csv.columns)
        /\ SubSeq(data.columns, 1, Len(csv.columns)) = csv.columns
        /\ \A i, j \in DOMAIN TermColumns : i < j => Before(TermColumns[i], TermColumns[j])

\* "hi all" came first: its terms were first seen in the order hi, all and
\* are the columns all, hi after the four columns of the cleaned table
C11_Witness ==
    /\ pc = "vectorized"
    /\ csv.columns = CleanedColumns
    /\ csv.rows[1][CONTENT] = <<104, 105, 32, 97, 108, 108>>
    /\ SubSeq(TermColumns, 1, 2) = << <<97, 108, 108>>, <<104, 105>> >>
    /\ Len(TermColumns) >= 3

-----------------------------------------------------------------------------
(* train_test_splitting and sklearn.model_selection.train_test_split      *)

\* floor(test_size * n_samples)
n_test_floor(size, n) == (size * n) \div 100

\* ceil(test_size * n_samples), test_size in hundredths
n_test_of(size, n) == (size * n + 99) \div 100

\* the orders rng.permutation(n_samples) can give
ShuffledOrders(n) == {p \in [1..n -> 1..n] : \A i, j \in 1..n : i # j => p[i] # p[j]}

\* the rows of df at the positions listed, in the order listed
iloc(df, positions) ==
    [df EXCEPT !.index = [k \in DOMAIN positions |-> df.index[positions[k]]],
               !.rows = [k \in DOMAIN positions |-> df.rows[positions[k]]]]

\* the training positions start one place early, on the last test position
shuffle_split_overlapping(perm, n_test, n_train) ==
    [test |-> SubSeq(perm, 1, n_test), train |-> SubSeq(perm, n_test, n_test + n_train - 1)]

\* ShuffleSplit: the first n_test positions of the shuffled order are the
\* test set, the n_train after them the training set
shuffle_split(perm, n_test, n_train) ==
    [test |-> SubSeq(perm, 1, n_test), train |-> SubSeq(perm, n_test + 1, n_test + n_train)]

\* the values stay in the order of the series
safe_indexing_in_order(y, positions) == [k \in DOMAIN positions |-> y[k]]

\* _safe_indexing of a series: its values at the positions listed, in the
\* order listed
safe_indexing(y, positions) == [k \in DOMAIN positions |-> y[positions[k]]]

\* train_test_split(x, y, test_size=test_size, random_state=42) with the
\* shuffled order perm; ValueError when the training set would be empty
train_test_split(x, y, size, perm) ==
    LET n == Len(x.rows)
        n_test == n_test_of(size, n)
        n_train == n - n_test
        parts == shuffle_split(perm, n_test, n_train)
    IN  IF n_train = 0 THEN [split |-> NoSplit, err |-> ValueError]
        ELSE [split |-> [x_train |-> iloc(x, parts.train), x_test |-> iloc(x, parts.test),
                         y_train |-> safe_indexing(y, parts.train),
                         y_test |-> safe_indexing(y, parts.test)],
              err |-> NoError]

\* the drop is made in place: the frame of the caller loses the columns
drop_inplace(df, labels) == [df |-> drop_columns(df, labels), x |-> drop_columns(df, labels)]

\* data.drop(labels, axis=1): df is the frame of the caller afterwards, x
\* the new frame returned
drop_copy(df, labels) == [df |-> df, x |-> drop_columns(df, labels)]

\* x = data.drop(["CLASS","CONTENT"], axis=1); y = data["CLASS"];
\* train_test_split(x, y, ...). KeyError naming the labels the frame does
\* not have. df is the frame of the caller when the call ends.
train_test_splitting(df, size, perm) ==
    LET labels == <<CLASS, CONTENT>>
        absent == SubSeqAt(labels, {i \in DOMAIN labels : labels[i] \notin Range(df.columns)}, 1)
        dropped == drop_copy(df, labels)
    IN  IF absent # <<>> THEN [df |-> df, split |-> NoSplit, err |-> KeyError(absent)]
        ELSE IF CLASS \notin Range(dropped.df.columns)
        THEN [df |-> dropped.df, split |-> NoSplit, err |-> KeyError(<<CLASS>>)]
        ELSE LET r == train_test_split(dropped.x, getitem(dropped.df, CLASS), size, perm)
             IN  [df |-> dropped.df, split |-> r.split, err |-> r.err]

-----------------------------------------------------------------------------
(* main(): one action per statement.                                      *)

\* most rows of the dataset file of a whole run
MaxFileRows == 3

Text3 == <<51>>                          \* "3"
ContentBuyNow == <<66, 117, 121, 32, 110, 111, 119>>   \* "Buy now"
ContentA == <<97>>                       \* "a"

\* rows of the dataset file: two complete comments of different classes, a
\* comment without a token, and a comment with no AUTHOR
FileRows ==
    { BaseRow,
      CsvRow(Text2, AuthorAl, Date2015, ContentBuyNow, VideoKP, <<0>>),
      CsvRow(Text3, AuthorAl, Date2015, ContentA, VideoPSY, <<0>>),
      [BaseRow EXCEPT ![AUTHOR] = NaN] }

\* the table without the columns in absent
Without(df, absent) == drop_columns(df, SubSeqAt(df.columns, {i \in DOMAIN df.columns : df.columns[i] \in absent}, 1))

\* dataset files: the expected columns, or all of them but one
Files ==
    {Without(Frame(ExpectedColumns, r), absent) :
        r \in UNION {[1..n -> FileRows] : n \in 0..MaxFileRows},
        absent \in {{}} \cup {{c} : c \in Range(ExpectedColumns)}}

Init ==
    /\ csv \in Files
    /\ data = EmptyFrame
    /\ pc = "start"
    /\ out = <<>>
    /\ err = NoError
    /\ test_size = TestSizePercent
    /\ split = NoSplit
    /\ model = {}
    /\ y_pred = <<>>
    /\ scores = <<>>

\* data = pd.read_csv('Youtube-Spam-Dataset.csv')
ReadCsv ==
    /\ pc = "start"
    /\ data' = csv
    /\ pc' = "loaded"
    /\ UNCHANGED <<csv, test_size, out, err, split, model, y_pred, scores>>

\* x_train, x_test, y_train, y_test = train_test_splitting(data)
Split ==
    /\ pc = "vectorized"
    /\ \E perm \in ShuffledOrders(Len(data.rows)) :
         LET r == train_test_splitting(data, test_size, perm)
         IN  /\ data' = r.df
             /\ split' = r.split
             /\ err' = r.err
             /\ pc' = IF r.err = NoError THEN "split" ELSE "error"
    /\ UNCHANGED <<csv, test_size, out, model, y_pred, scores>>

\* model = model_training_random_forest(x_train, y_train, ...): the fitted
\* forest, known here by its classes_
Train ==
    /\ pc = "split"
    /\ model' = Range(split.y_train)
    /\ pc' = "fitted"
    /\ UNCHANGED <<csv, test_size, data, out, err, split, y_pred, scores>>

\* y_pred = model.predict(x_test): one of the classes_ for each test row
Predict ==
    /\ pc = "fitted"
    /\ y_pred' \in [DOMAIN split.y_test -> model]
    /\ pc' = "predicted"
    /\ UNCHANGED <<csv, test_size, data, out, err, split, model, scores>>

\* the ratio is left undefined, 0 / 0, when nothing is counted
RatioUndefined(tp, other) == <<tp, tp + other>>

\* tp / (tp + other) as <<numerator, denominator>>; 0 when undefined
\* (zero_division="warn")
Ratio(tp, other) == IF tp + other = 0 THEN <<0, 1>> ELSE <<tp, tp + other>>

\* accuracy_score, precision_score, recall_score and f1_score with their
\* defaults: pos_label=1, zero_division="warn"
model_evaluation_scores(pred, test) ==
    LET pos == <<1>>
        hits == Cardinality({k \in DOMAIN test : pred[k] = test[k]})
        tp == Cardinality({k \in DOMAIN test : pred[k] = pos /\ test[k] = pos})
        fp == Cardinality({k \in DOMAIN test : pred[k] = pos /\ test[k] # pos})
        fn == Cardinality({k \in DOMAIN test : pred[k] # pos /\ test[k] = pos})
    IN  [accuracy |-> <<hits, Len(test)>>,
         precision |-> Ratio(tp, fp),
         recall |-> Ratio(tp, fn),
         f1 |-> Ratio(2 * tp, fp + fn)]

\* accuracy, precision, recall, f1 = model_evaluation_scores(y_pred, y_test)
Evaluate ==
    /\ pc = "predicted"
    /\ scores' = model_evaluation_scores(y_pred, split.y_test)
    /\ pc' = "scored"
    /\ UNCHANGED <<csv, test_size, data, out, err, split, model, y_pred>>

\* unique_labels(y_test, y_pred): the sorted labels that occur in either
unique_labels(test, pred) == sorted(Range(test) \cup Range(pred))

\* the matrix with rows the predicted label and columns the true label
c_m_transposed(test, pred) ==
    LET labels == unique_labels(test, pred)
    IN  [i \in DOMAIN labels |-> [j \in DOMAIN labels |->
            Cardinality({k \in DOMAIN test : test[k] = labels[j] /\ pred[k] = labels[i]})]]

\* c_m(y_test, y_pred): rows the true label, columns the predicted label,
\* over the sorted labels that occur in either
c_m(test, pred) ==
    LET labels == unique_labels(test, pred)
    IN  [i \in DOMAIN labels |-> [j \in DOMAIN labels |->
            Cardinality({k \in DOMAIN test : test[k] = labels[i] /\ pred[k] = labels[j]})]]

\* display_labels=['SPAM', 'NON-SPAM'] and target_names=['SPAM', 'NON-SPAM']
display_labels == <<"SPAM", "NON-SPAM">>
target_names == <<"SPAM", "NON-SPAM">>

\* def confusion_matrix(y_pred, y_test): what is shown and the exception
\* raised. ConfusionMatrixDisplay.plot sets one tick per class of cm and
\* then the display labels as tick labels: ValueError when there are not as
\* many classes as display labels.
confusion_matrix(pred, test) ==
    LET cm == c_m(test, pred)
    IN  IF Len(cm) # Len(display_labels) THEN [out |-> <<>>, err |-> ValueError]
        ELSE [out |-> <<[what |-> "confusion_matrix", cm |-> cm, labels |-> display_labels]>>,
              err |-> NoError]

\* def classification_rep(y_pred, y_test): what is printed and the
\* exception raised. classification_report raises ValueError when the
\* number of classes in the data is not that of target_names; it prints
\* one line per class, with its support.
classification_rep(pred, test) ==
    LET labels == unique_labels(test, pred)
    IN  IF Len(labels) # Len(target_names) THEN [out |-> <<>>, err |-> ValueError]
        ELSE [out |-> <<[what |-> "classification_report", names |-> target_names,
                         support |-> [i \in DOMAIN labels |->
                            Cardinality({k \in DOMAIN test : test[k] = labels[i]})]]>>,
              err |-> NoError]

\* confusion_matrix(y_pred, y_test)
ConfusionMatrix ==
    /\ pc = "scored"
    /\ LET r == confusion_matrix(y_pred, split.y_test)
       IN  /\ out' = out \o r.out
           /\ err' = r.err
           /\ pc' = IF r.err = NoError THEN "plotted" ELSE "error"
    /\ UNCHANGED <<csv, test_size, data, split, model, y_pred, scores>>

\* classification_rep(y_pred, y_test)
ClassificationRep ==
    /\ pc = "plotted"
    /\ LET r == classification_rep(y_pred, split.y_test)
       IN  /\ out' = out \o r.out
           /\ err' = r.err
           /\ pc' = IF r.err = NoError THEN "reported" ELSE "error"
    /\ UNCHANGED <<csv, test_size, data, split, model, y_pred, scores>>

\* the scores are printed as soon as the matrix is shown, before the report
PrintScoresBeforeReport ==
    /\ pc = "plotted"
    /\ out' = Append(out, [what |-> "scores", scores |-> scores])
    /\ pc' = "done"
    /\ UNCHANGED <<csv, test_size, data, err, split, model, y_pred, scores>>

\* print(f"Accuracy: ... F1: ...")
PrintScores ==
    /\ pc = "reported"
    /\ out' = Append(out, [what |-> "scores", scores |-> scores])
    /\ pc' = "done"
    /\ UNCHANGED <<csv, test_size, data, err, split, model, y_pred, scores>>

Next ==
    \/ ReadCsv
    \/ Clean
    \/ Vectorize
    \/ Split
    \/ Train
    \/ Predict
    \/ Evaluate
    \/ ConfusionMatrix
    \/ ClassificationRep
    \/ PrintScores

Spec == Init /\ [][Next]_vars

-----------------------------------------------------------------------------
(* Properties of a whole run (specification Spec).                        *)

\* the expected columns the dataset file does not have
Absent == Range(ExpectedColumns) \ Range(csv.columns)

\* the stages after the split
LaterStages == {"fitted", "predicted", "scored", "plotted", "reported", "done"}

\* C6: when the dataset file lacks an expected column, no run reaches
\* training, prediction or the metrics, and the error that ends the run names
\* the missing column.
C6_MissingColumnNamed ==
    Absent # {} =>
        /\ pc \notin LaterStages
        /\ pc # "split"
        /\ pc = "error" => Absent \subseteq Range(err.labels)

\* C7: when no row is left after cleaning, the step after cleaning ends the
\* run in an error, and there is never a fitted model, a prediction or a
\* metric.
C7_EmptyTableIsFatal ==
    [][Kept = {} =>
         /\ pc' \in {"loaded", "cleaned", "error"}
         /\ pc = "cleaned" => pc' = "error"
         /\ model' = {}
         /\ y_pred' = <<>>
         /\ scores' = <<>>
         /\ split' = NoSplit]_vars

\* a file with all its columns and with rows, none of which is left after
\* cleaning, has ended in the vectorizer's error
C7_Witness ==
    /\ pc = "error"
    /\ Absent = {}
    /\ Len(csv.rows) >= 2
    /\ Kept = {}
    /\ data.columns = CleanedColumns
    /\ data.rows = <<>>
    /\ err = ValueError

-----------------------------------------------------------------------------
(* The splitting stage on its own: combined tables as vectorizing builds   *)
(* them, split with a held-out fraction of 0.3 or 0.33.                    *)

\* most rows of a combined table handed to train_test_splitting on its own
\* (the six-row dataset apart)
MaxSplitRows == 4

\* held-out fractions, in hundredths: the default and that of the six-row
\* scenario
SplitSizes == {TestSizePercent, 33}

\* cleaned tables with any classes: the rows of a class are equal but for
\* the row label
SplitCleaned ==
    {ToyCleaned} \cup
    UNION {
      {Frame(CleanedColumns,
             [i \in 1..n |-> CleanedRow(0, IF classes[i] = 0 THEN ContentBuyNow ELSE ContentHiAll,
                                        0, classes[i])]) :
          classes \in [1..n -> {0, 1}]} :
      n \in 1..MaxSplitRows}

InitSplit ==
    /\ csv \in SplitCleaned
    /\ data = vectorizing(csv).df
    /\ pc = "vectorized"
    /\ out = <<>>
    /\ err = NoError
    /\ test_size \in SplitSizes
    /\ split = NoSplit
    /\ model = {}
    /\ y_pred = <<>>
    /\ scores = <<>>

NextSplit == Split

SpecSplit == InitSplit /\ [][NextSplit]_vars

-----------------------------------------------------------------------------
(* Properties of the splitting stage (specification SpecSplit). A row is   *)
(* identified by its label in the combined table.                          *)

\* the row of the combined table with the given label
RowOf(label) == data.rows[CHOOSE i \in DOMAIN data.index : data.index[i] = label]

\* C12: when train_test_splitting succeeds, the training rows and the test
\* rows are disjoint and together exactly the rows of the input table: no
\* row is in both, none is lost, none is duplicated.
C12_Partition ==
    pc = "split" =>
        LET train == split.x_train
            test == split.x_test
        IN  /\ Range(train.index) \cap Range(test.index) = {}
            /\ Range(train.index) \cup Range(test.index) = Range(data.index)
            /\ Len(train.index) + Len(test.index) = Len(data.index)
            /\ \A part \in {train, test} : \A k \in DOMAIN part.rows :
                  \A c \in Range(part.columns) : part.rows[k][c] = RowOf(part.index[k])[c]

\* four rows were split two and two, and the training rows are not in the
\* order of the table
C12_Witness ==
    /\ pc = "split"
    /\ Len(data.rows) = 4
    /\ Len(split.x_train.index) = 2
    /\ Len(split.x_test.index) = 2
    /\ split.x_train.index[1] > split.x_train.index[2]

\* N * f rounded to the nearest whole number, f in hundredths
Rounded(N, size) == (2 * size * N + 100) \div 200

\* C13: for a table of N rows and held-out fraction f the train and test
\* row counts sum to N, the test row count is round(N * f) to within one
\* row, and for N = 6 and f = 0.33 the test set has exactly 2 rows and the
\* training set 4.
C13_Counts ==
    pc = "split" =>
        LET N == Len(data.rows)
            n_train == Len(split.x_train.rows)
            n_test == Len(split.x_test.rows)
        IN  /\ n_train + n_test = N
            /\ Len(split.y_train) = n_train
            /\ Len(split.y_test) = n_test
            /\ n_test - Rounded(N, test_size) \in {-1, 0, 1}
            /\ (N = 6 /\ test_size = 33) => (n_test = 2 /\ n_train = 4)

\* the six-row dataset was split with held-out fraction 0.33
C13_Witness ==
    /\ pc = "split"
    /\ csv = ToyCleaned
    /\ Len(data.rows) = 6
    /\ test_size = 33
    /\ Len(split.x_test.rows) = 2

\* the labels of a sequence that are not among those excluded, in order
Except(columns, excluded) ==
    SubSeqAt(columns, {i \in DOMAIN columns : columns[i] \notin excluded}, 1)

\* C14: the k-th training label is the CLASS value of the same input row as
\* the k-th training feature row, likewise for test, and both feature
\* collections carry every column of the combined table except CLASS and
\* CONTENT.
C14_PairedFeatures ==
    pc = "split" =>
        /\ \A k \in DOMAIN split.y_train :
              split.y_train[k] = RowOf(split.x_train.index[k])[CLASS]
        /\ \A k \in DOMAIN split.y_test :
              split.y_test[k] = RowOf(split.x_test.index[k])[CLASS]
        /\ split.x_train.columns = Except(data.columns, {CLASS, CONTENT})
        /\ split.x_test.columns = split.x_train.columns
        /\ \A part \in {split.x_train, split.x_test} : \A k \in DOMAIN part.rows :
              DOMAIN part.rows[k] = Range(data.columns) \ {CLASS, CONTENT}

\* the classes of the table alternate and its second row came first in the
\* training set, so the first training label is not that of the first row
C14_Witness ==
    /\ pc = "split"
    /\ Len(data.rows) = 4
    /\ data.rows[1][CLASS] = <<0>>
    /\ data.rows[2][CLASS] = <<1>>
    /\ split.x_train.index[1] = 1
    /\ split.y_train[1] = <<1>>
    /\ Len(split.x_train.columns) = Len(data.columns) - 2

-----------------------------------------------------------------------------
(* The evaluation functions on their own: any true and predicted labels   *)
(* of the two classes, of equal length. The variables of the stages       *)
(* before are not read and stay empty.                                    *)

\* most test rows handed to the evaluation functions on their own
MaxEvalRows == 4

\* the two classes, as they stand in the CLASS column
Classes == {<<0>>, <<1>>}

InitEval ==
    /\ csv = EmptyFrame
    /\ data = EmptyFrame
    /\ pc = "predicted"
    /\ out = <<>>
    /\ err = NoError
    /\ test_size = TestSizePercent
    /\ \E n \in 1..MaxEvalRows : \E test \in [1..n -> Classes] :
          split = [x_train |-> EmptyFrame,
                   x_test |-> Frame(<<>>, [k \in 1..n |-> <<>>]),
                   y_train |-> <<>>,
                   y_test |-> test]
    /\ model = Classes
    /\ y_pred \in [DOMAIN split.y_test -> model]
    /\ scores = <<>>

NextEval == Evaluate \/ ConfusionMatrix \/ ClassificationRep \/ PrintScores

SpecEval == InitEval /\ [][NextEval]_vars

-----------------------------------------------------------------------------
(* Properties of the evaluation (specifications SpecEval and Spec).       *)

\* the stages at which there are predictions
Predicted == {"predicted", "scored", "plotted", "reported", "done"}

\* how many test rows have the true label a / the predicted label a / both
\* the true label a and the predicted label b
TrueCount(a) == Cardinality({k \in DOMAIN split.y_test : split.y_test[k] = a})
PredictedCount(a) == Cardinality({k \in DOMAIN y_pred : y_pred[k] = a})
PairCount(a, b) ==
    Cardinality({k \in DOMAIN y_pred : split.y_test[k] = a /\ y_pred[k] = b})

\* the labels that occur among the true or the predicted labels, and the
\* i-th of them in ascending order
Present == {a \in Classes : TrueCount(a) + PredictedCount(a) > 0}
LabelAt(i) == CHOOSE a \in Present : Cardinality({b \in Present : Num(b) < Num(a)}) = i - 1

\* sum of the numbers of a sequence
RECURSIVE Sum(_)
Sum(q) == IF q = <<>> THEN 0 ELSE Head(q) + Sum(Tail(q))

\* C15: for equal-length true and predicted labels the confusion matrix has
\* rows indexed by true label and columns by predicted label; its cells
\* sum to the number of test rows, each row sum is the number of test rows
\* of that true class and each column sum the number of test rows
\* predicted as that class. The matrix shown is this matrix.
C15_ConfusionMatrixSums ==
    pc \in Predicted =>
        LET cm == c_m(split.y_test, y_pred)
        IN  /\ DOMAIN cm = 1..Cardinality(Present)
            /\ \A i \in DOMAIN cm :
                  /\ DOMAIN cm[i] = DOMAIN cm
                  /\ \A j \in DOMAIN cm : cm[i][j] = PairCount(LabelAt(i), LabelAt(j))
                  /\ Sum(cm[i]) = TrueCount(LabelAt(i))
                  /\ Sum([r \in DOMAIN cm |-> cm[r][i]]) = PredictedCount(LabelAt(i))
            /\ Sum([i \in DOMAIN cm |-> Sum(cm[i])]) = Len(split.y_test)
            /\ \A k \in DOMAIN out : out[k].what = "confusion_matrix" => out[k].cm = cm

\* a matrix has been shown that is not symmetric
C15_Witness ==
    /\ pc = "plotted"
    /\ Len(split.y_test) = 3
    /\ \E k \in DOMAIN out :
          /\ out[k].what = "confusion_matrix"
          /\ out[k].cm[1][2] = 2
          /\ out[k].cm[2][1] = 0

\* C16 as claimed: when the test labels and the predictions contain only
\* one of the two classes, evaluation is not fatal: the run still shows a
\* 2x2 confusion matrix with SPAM (label 0) before NON-SPAM (label 1), the
\* classification report and the four scalar metrics.
C16_OneClassNotFatal ==
    (pc \in Predicted \cup {"error"} /\ y_pred # <<>> /\ Cardinality(Present) = 1) =>
        /\ pc # "error"
        /\ pc \in {"plotted", "reported", "done"} =>
              \E k \in DOMAIN out :
                  /\ out[k].what = "confusion_matrix"
                  /\ Len(out[k].cm) = 2
                  /\ out[k].labels = <<"SPAM", "NON-SPAM">>
        /\ pc \in {"reported", "done"} =>
              \E k \in DOMAIN out : out[k].what = "classification_report"
        /\ pc = "done" => \E k \in DOMAIN out : out[k].what = "scores"

\* a fraction <<numerator, denominator>> is the number a / b, or is 0
IsFraction(q, a, b) == q[2] # 0 /\ q[1] * b = a * q[2]
IsZero(q) == q[2] # 0 /\ q[1] = 0

\* C17: model_evaluation_scores takes label 1 as the positive class; when
\* no test row is predicted as label 1, or none has true label 1, it
\* returns zero for the undefined precision or recall, and for F1, instead
\* of raising, and the run goes on to the reporting steps (the next step is
\* "scored", at which confusion_matrix is called).
C17_ZeroWhenUndefined ==
    [][pc = "predicted" =>
          LET tp == PairCount(<<1>>, <<1>>)
              predicted == PredictedCount(<<1>>)
              actual == TrueCount(<<1>>)
          IN  /\ pc' = "scored"
              /\ err' = NoError
              /\ IF predicted = 0 THEN IsZero(scores'.precision)
                 ELSE IsFraction(scores'.precision, tp, predicted)
              /\ IF actual = 0 THEN IsZero(scores'.recall)
                 ELSE IsFraction(scores'.recall, tp, actual)
              /\ IF predicted = 0 \/ actual = 0 THEN IsZero(scores'.f1)
                 ELSE IsFraction(scores'.f1, 2 * tp, predicted + actual)]_vars

\* scores were computed where no test row is predicted as label 1 and one
\* has true label 1
C17_Witness ==
    /\ pc = "scored"
    /\ PredictedCount(<<1>>) = 0
    /\ TrueCount(<<1>>) > 0
    /\ scores.precision = <<0, 1>>
    /\ scores.recall[1] = 0

-----------------------------------------------------------------------------
(* Properties of the order of a run (specification Spec).                 *)

\* the stages of main in order, named by what has been completed
Stages ==
    <<"start", "loaded", "cleaned", "vectorized", "split", "fitted", "predicted",
      "scored", "plotted", "reported", "done">>

\* the kinds of output in the order they may appear
OutputKinds == <<"null", "duplicate", "confusion_matrix", "classification_report", "scores">>

\* the place of a value in a sequence without repetitions
PlaceIn(q, v) == CHOOSE i \in DOMAIN q : q[i] = v

\* the kinds of output the stage that starts at a position may emit
EmittedFrom(stage) ==
    IF stage = "loaded" THEN {"null", "duplicate"}
    ELSE IF stage = "scored" THEN {"confusion_matrix"}
    ELSE IF stage = "plotted" THEN {"classification_report"}
    ELSE IF stage = "reported" THEN {"scores"}
    ELSE {}

\* C18: in every run of main the stages execute strictly in the order load,
\* clean/encode, vectorize, split, fit, predict, evaluate, report; a stage
\* starts only where the previous one has completed, and after a failure
\* nothing runs. Output is only added, each kind by its own stage, in the
\* order row-removal counts, confusion matrix, classification report,
\* scalar metrics. The vocabulary is fitted on the whole table before the
\* split: the features of the training rows have a column for every term of
\* every row, test rows included.
C18_StagesInOrder ==
    [][/\ pc \notin {"error", "done"}
       /\ pc' \in {Stages[PlaceIn(Stages, pc) + 1], "error"}
       /\ (pc' = "error") = (err' # NoError)
       /\ Len(out') >= Len(out)
       /\ SubSeq(out', 1, Len(out)) = out
       /\ \A k \in (Len(out) + 1)..Len(out') : out'[k].what \in EmittedFrom(pc)
       /\ \A j, k \in DOMAIN out' :
             j < k => PlaceIn(OutputKinds, out'[j].what) < PlaceIn(OutputKinds, out'[k].what)
       /\ pc' = "split" =>
             /\ Len(split'.x_train.rows) + Len(split'.x_test.rows) = Len(data.rows)
             /\ \A i \in DOMAIN data.rows :
                   Words(data.rows[i][CONTENT], MinTokenLen)
                       \subseteq Range(split'.x_train.columns)
       /\ pc' = "fitted" => model' = Range(split.y_train)
       /\ pc' = "predicted" => DOMAIN y_pred' = DOMAIN split.x_test.rows
       /\ pc' = "done" => out'[Len(out')] = [what |-> "scores", scores |-> scores]]_vars

\* a run has ended after a row with a missing field was removed: the count
\* of removed rows, the matrix, the report and the scores are out, in this
\* order
C18_Witness ==
    /\ pc = "done"
    /\ Len(out) = 4
    /\ [k \in DOMAIN out |-> out[k].what]
         = <<"null", "confusion_matrix", "classification_report", "scores">>

-----------------------------------------------------------------------------
(* Properties of the messages of the cleaning stage (specification        *)
(* SpecClean), for the first call and for the second.                     *)

\* the rows of a table with a missing field
NullRows(df) == {i \in DOMAIN df.rows : \E c \in Range(df.columns) : df.rows[i][c] = <<>>}

\* how many of the complete rows of a table are equal to an earlier
\* complete row
DuplicateCount(df) ==
    LET complete == (DOMAIN df.rows) \ NullRows(df)
    IN  Cardinality(complete)
          - Cardinality({[c \in Range(df.columns) |-> df.rows[i][c]] : i \in complete})

\* the message with a count, when the count is not zero
Message(what, n) == IF n = 0 THEN <<>> ELSE <<[what |-> what, n |-> n]>>

\* C19 as claimed: every call emits the count of removed null rows and then
\* the count of removed duplicate rows (counted after the null rows were
\* removed), also when a count is zero.
C19_BothCountsAlways ==
    pc = "cleaned" =>
        out = << [what |-> "null", n |-> Cardinality(NullRows(csv))],
                 [what |-> "duplicate", n |-> DuplicateCount(csv)] >>

\* C19 as amended: a call emits the count of removed null rows when rows
\* with a missing field were removed, and then the count of removed
\* duplicate rows (counted on the table after the null rows were removed)
\* when duplicate rows were removed; a count of zero is not emitted.
C19_CountsWhenRemoved ==
    [][(pc = "loaded" \/ pc = "cleaned") =>
          LET nulls == Message("null", Cardinality(NullRows(data)))
              duplicates == Message("duplicate", DuplicateCount(data))
          IN  out' = (out \o nulls) \o duplicates]_vars

\* of three complete rows one was a duplicate: its count is all that the
\* call printed
C19_Witness ==
    /\ pc = "cleaned"
    /\ Len(csv.rows) = 3
    /\ NullRows(csv) = {}
    /\ out = <<[what |-> "duplicate", n |-> 1]>>

-----------------------------------------------------------------------------
(* Properties of the combined table after it is built (specification      *)
(* Spec).                                                                 *)

\* the stages before the combined table is built
Building == {"start", "loaded", "cleaned"}

\* C20: once the combined table has been built, no later stage changes it:
\* splitting, fitting, prediction, evaluation and the reports leave it with
\* all its rows and all its columns, CLASS and CONTENT included, while the
\* feature collections returned by the split have neither.
C20_TableUnchanged ==
    [][(pc \notin Building) =>
          /\ data' = data
          /\ pc' # "error" =>
                /\ {CLASS, CONTENT} \subseteq Range(data'.columns)
                /\ \A i \in DOMAIN data'.rows : DOMAIN data'.rows[i] = Range(data'.columns)
                /\ Len(data'.rows) = Len(split'.x_train.rows) + Len(split'.x_test.rows)
                /\ {CLASS, CONTENT} \cap Range(split'.x_train.columns) = {}
                /\ {CLASS, CONTENT} \cap Range(split'.x_test.columns) = {}]_vars

\* a run has ended: the table of three rows still has CLASS and CONTENT
\* and its term columns
C20_Witness ==
    /\ pc = "done"
    /\ Len(data.rows) = 3
    /\ {CLASS, CONTENT} \subseteq Range(data.columns)
    /\ Len(data.columns) > Len(CleanedColumns)
    /\ CONTENT \notin Range(split.x_train.columns)

-----------------------------------------------------------------------------
(* Properties of the frame data_cleaning_encoding is given (specification *)
(* Spec, whose files may lack a column).                                  *)

\* the columns encoded before the step that fails for want of a column
Encoded ==
    IF AUTHOR \in Absent THEN {}
    ELSE IF VIDEO_NAME \in Absent THEN {AUTHOR}
    ELSE {AUTHOR, VIDEO_NAME}

\* the code of the value of column c in the k-th surviving row: how many of
\* the surviving values come before it
Rank(c, k) == Cardinality({v \in Range(Original(c)) : Before(v, Original(c)[k])})

\* C21: data_cleaning_encoding works in place on the table it is given and
\* returns that same table, so that after a successful call the table given
\* is the cleaned one. When the call aborts because a column is missing,
\* what was done before the failing step stays in the table of the caller:
\* the null and duplicate rows are gone (the rows left keep their labels,
\* the index is not reset), the columns encoded before the failure hold
\* codes, and DATE is gone when the failure is on COMMENT_ID.
C21_InPlace ==
    [][(pc = "loaded") =>
          LET r == data_cleaning_encoding(data)
          IN  /\ pc' = "cleaned" =>
                    /\ r.df = r.ret
                    /\ data' = r.df
                    /\ Len(data'.rows) = Cardinality(Kept)
                    /\ data'.columns = Except(csv.columns, {DATE, COMMENT_ID})
              /\ pc' = "error" =>
                    /\ err'.type = "KeyError"
                    /\ data'.index = SubSeqAt(csv.index, Kept, 1)
                    /\ data'.columns = IF COMMENT_ID \in Absent
                                       THEN Except(csv.columns, {DATE}) ELSE csv.columns
                    /\ \A k \in DOMAIN data'.rows : \A c \in Range(data'.columns) :
                          data'.rows[k][c] = IF c \in Encoded THEN <<Rank(c, k)>>
                                             ELSE Survivors[k][c]
                    /\ (\/ Kept # DOMAIN csv.rows
                        \/ Encoded # {} /\ Kept # {}
                        \/ COMMENT_ID \in Absent) => data' # data]_vars

\* a file without COMMENT_ID: the call has failed on the last drop, after
\* the first of three rows was removed, AUTHOR was encoded and DATE was
\* dropped
C21_Witness ==
    /\ pc = "error"
    /\ Absent = {COMMENT_ID}
    /\ err = KeyError(<<COMMENT_ID>>)
    /\ Len(csv.rows) = 3
    /\ data.index = <<1, 2>>
    /\ DATE \notin Range(data.columns)
    /\ data.rows[1][AUTHOR] \in {<<0>>, <<1>>}
    /\ data.rows[1][AUTHOR] # data.rows[2][AUTHOR]

====
